---- MODULE Spec2Model ----
(***************************************************************************)
(* Model of tools/postgres_settings.py: the pipeline of main() (settings   *)
(* query, category file load, reconciliation, schema generation, write)    *)
(* and the pure function generate_schema_yaml.                             *)
(*                                                                         *)
(* Conventions                                                             *)
(*   - a Python str is a sequence of one-character strings; a parameter    *)
(*     name is a sequence of code points (naturals), so that the order     *)
(*     sorted() uses is computed and not assumed;                          *)
(*   - a value that may be None is a sequence of length 0 (None) or 1;     *)
(*   - a Python dict, which keeps insertion order, is a sequence of        *)
(*     <<key, value>> pairs with distinct keys;                            *)
(*   - a schema property is a record whose domain is the set of keys the   *)
(*     code assigned; its values are tagged with their Python type.        *)
(***************************************************************************)
EXTENDS Integers, Sequences, FiniteSets, TLC

(***************************************************************************)
(* Bounds of the model.                                                    *)
(***************************************************************************)
\* names in one category's list, for generate_schema_yaml called on its own
GenMaxListLen == 2
\* names in one category's list in the category file of a run of main()
MainMaxListLen == 2

(***************************************************************************)
(* Python values.                                                          *)
(***************************************************************************)
None == <<>>

Some(v) == <<v>>

IsNone(o) == Len(o) = 0

Get(o) == o[1]

\* truthiness of an optional str or list: None and the empty one are falsy
Truthy(o) == ~IsNone(o) /\ Len(Get(o)) > 0

Digits == {"0", "1", "2", "3", "4", "5", "6", "7", "8", "9"}

DigitVal(c) ==
    CASE c = "0" -> 0 [] c = "1" -> 1 [] c = "2" -> 2 [] c = "3" -> 3
      [] c = "4" -> 4 [] c = "5" -> 5 [] c = "6" -> 6 [] c = "7" -> 7
      [] c = "8" -> 8 [] c = "9" -> 9

RECURSIVE LStrip(_)
LStrip(s) == IF Len(s) > 0 /\ Head(s) = " " THEN LStrip(Tail(s)) ELSE s

RECURSIVE RStrip(_)
RStrip(s) ==
    IF Len(s) > 0 /\ s[Len(s)] = " " THEN RStrip(SubSeq(s, 1, Len(s) - 1)) ELSE s

Strip(s) == RStrip(LStrip(s))

HasSign(s) == Len(s) > 0 /\ Head(s) \in {"+", "-"}

Unsigned(s) == IF HasSign(s) THEN Tail(s) ELSE s

SignOf(s) == IF Len(s) > 0 /\ Head(s) = "-" THEN -1 ELSE 1

AllDigits(s) == \A i \in 1..Len(s) : s[i] \in Digits

RECURSIVE DigitsVal(_)
DigitsVal(s) ==
    IF Len(s) = 0 THEN 0
    ELSE DigitsVal(SubSeq(s, 1, Len(s) - 1)) * 10 + DigitVal(s[Len(s)])

\* int(s) of a str succeeds: blanks stripped, an optional sign, digits
IntParses(s) ==
    LET u == Unsigned(Strip(s)) IN Len(u) > 0 /\ AllDigits(u)

IntOf(s) ==
    LET t == Strip(s) IN [t |-> "int", i |-> SignOf(t) * DigitsVal(Unsigned(t))]

DotAt(u) ==
    IF \E i \in 1..Len(u) : u[i] = "."
    THEN CHOOSE i \in 1..Len(u) : u[i] = "." /\ \A j \in 1..(i - 1) : u[j] # "."
    ELSE 0

IntPart(u) == IF DotAt(u) = 0 THEN u ELSE SubSeq(u, 1, DotAt(u) - 1)

FracPart(u) == IF DotAt(u) = 0 THEN <<>> ELSE SubSeq(u, DotAt(u) + 1, Len(u))

\* float(s) of a str succeeds: blanks stripped, an optional sign, digits with
\* at most one point and at least one digit
FloatParses(s) ==
    LET u == Unsigned(Strip(s)) IN
    /\ AllDigits(IntPart(u))
    /\ AllDigits(FracPart(u))
    /\ Len(IntPart(u)) + Len(FracPart(u)) > 0

RECURSIVE Normalize(_, _)
Normalize(m, e) ==
    IF e > 0 /\ m % 10 = 0 THEN Normalize(m \div 10, e - 1) ELSE [m |-> m, e |-> e]

\* the float m * 10^(-e), with no trailing zero in m: equal floats are equal values
FloatOf(s) ==
    LET t == Strip(s)
        u == Unsigned(t)
        n == Normalize(DigitsVal(IntPart(u) \o FracPart(u)), Len(FracPart(u)))
    IN  [t |-> "float", m |-> SignOf(t) * n.m, e |-> n.e]

BoolOf(b) == [t |-> "bool", b |-> b]

StrOf(s) == [t |-> "str", s |-> s]

(***************************************************************************)
(* Ordered dicts and sorted().                                             *)
(***************************************************************************)
Keys(d) == {d[i][1] : i \in 1..Len(d)}

KeySeq(d) == [i \in 1..Len(d) |-> d[i][1]]

Lookup(d, k) == d[CHOOSE i \in 1..Len(d) : d[i][1] = k][2]

\* d[k] = v: a new key goes last, a key already there keeps its place
DictSet(d, k, v) ==
    IF k \in Keys(d)
    THEN [i \in 1..Len(d) |-> IF d[i][1] = k THEN <<k, v>> ELSE d[i]]
    ELSE Append(d, <<k, v>>)

\* s < t for two strs: by code point, a proper prefix first
RECURSIVE StrLess(_, _)
StrLess(s, t) ==
    IF Len(t) = 0 THEN FALSE
    ELSE IF Len(s) = 0 THEN TRUE
    ELSE IF Head(s) # Head(t) THEN Head(s) < Head(t)
    ELSE StrLess(Tail(s), Tail(t))

RECURSIVE Insert(_, _)
Insert(sorted, x) ==
    IF Len(sorted) = 0 THEN <<x>>
    ELSE IF StrLess(x, Head(sorted)) THEN <<x>> \o sorted
    ELSE <<Head(sorted)>> \o Insert(Tail(sorted), x)

\* sorted(l): every element kept, duplicates too
RECURSIVE Sorted(_)
Sorted(l) == IF Len(l) = 0 THEN <<>> ELSE Insert(Sorted(SubSeq(l, 1, Len(l) - 1)), l[Len(l)])

(***************************************************************************)
(* generate_schema_yaml.                                                   *)
(***************************************************************************)
TypeMapping(pg_type) ==
    CASE pg_type = "bool" -> "boolean"
      [] pg_type = "integer" -> "integer"
      [] pg_type = "real" -> "number"
      [] pg_type = "string" -> "string"
      [] pg_type = "enum" -> "string"
      [] OTHER -> "string"

Description(setting_data) ==
    IF Truthy(setting_data.unit)
    THEN setting_data.short_desc \o <<" (Unit: ">> \o Get(setting_data.unit) \o <<")">>
    ELSE setting_data.short_desc

\* The state of the body of the loop over settings: the property built so far,
\* the warnings printed, and whether an exception is propagating.
PropStart(setting_data) ==
    [exc |-> FALSE,
     warn |-> <<>>,
     prop |-> [type |-> TypeMapping(setting_data.vartype),
               description |-> Description(setting_data)]]

SetField(st, key, v) == [st EXCEPT !.prop = @ @@ (key :> v)]

Raise(st) == [st EXCEPT !.exc = TRUE]

\* a line on sys.stderr: what it reports, and the setting it names, if any
ResetWarning(setting_name) == [kind |-> "Warning: Could not convert reset_val", setting |-> setting_name]

MissingWarning(setting_name) == [kind |-> "Warning: Setting not found in database data", setting |-> setting_name]

Diag(kind) == [kind |-> kind, setting |-> None]

\* lines 80-92: the default, converted inside try/except (ValueError, TypeError)
DefaultStep(st, setting_name, setting_data) ==
    LET pg_type == setting_data.vartype
        reset_val == setting_data.reset_val
    IN  IF IsNone(reset_val) THEN st
        ELSE IF pg_type = "bool"
             THEN SetField(st, "default", BoolOf(Get(reset_val) = <<"o", "n">>))
        ELSE IF pg_type = "integer"
             THEN IF IntParses(Get(reset_val))
                  THEN SetField(st, "default", IntOf(Get(reset_val)))
                  ELSE [st EXCEPT !.warn = Append(@, ResetWarning(setting_name))]
        ELSE IF pg_type = "real"
             THEN IF FloatParses(Get(reset_val))
                  THEN SetField(st, "default", FloatOf(Get(reset_val)))
                  ELSE [st EXCEPT !.warn = Append(@, ResetWarning(setting_name))]
        ELSE SetField(st, "default", StrOf(Get(reset_val)))

\* one int(...) or float(...) assignment outside any try: a ValueError propagates
IntBound(st, key, s) ==
    IF st.exc THEN st
    ELSE IF IntParses(s) THEN SetField(st, key, IntOf(s)) ELSE Raise(st)

FloatBound(st, key, s) ==
    IF st.exc THEN st
    ELSE IF FloatParses(s) THEN SetField(st, key, FloatOf(s)) ELSE Raise(st)

\* line 95-96: the first if
BoundsMinInt(st, setting_data) ==
    IF setting_data.vartype = "integer" /\ ~IsNone(setting_data.min_val)
    THEN IntBound(st, "minimum", Get(setting_data.min_val))
    ELSE st

\* lines 97-100 with the second if written as an elif of the first
BoundsSecondIfAsElif(st, setting_data) ==
    IF setting_data.vartype = "integer" /\ ~IsNone(setting_data.min_val)
    THEN st
    ELSE IF setting_data.vartype = "integer" /\ ~IsNone(setting_data.max_val)
         THEN IntBound(st, "maximum", Get(setting_data.max_val))
    ELSE IF setting_data.vartype = "real" /\ ~IsNone(setting_data.min_val)
         THEN FloatBound(st, "minimum", Get(setting_data.min_val))
    ELSE st

\* lines 97-100: the second if, and the elif that belongs to it
BoundsMaxIntElifMinReal(st, setting_data) ==
    IF setting_data.vartype = "integer" /\ ~IsNone(setting_data.max_val)
    THEN IntBound(st, "maximum", Get(setting_data.max_val))
    ELSE IF setting_data.vartype = "real" /\ ~IsNone(setting_data.min_val)
         THEN FloatBound(st, "minimum", Get(setting_data.min_val))
    ELSE st

\* lines 101-102: the third if
BoundsMaxReal(st, setting_data) ==
    IF setting_data.vartype = "real" /\ ~IsNone(setting_data.max_val)
    THEN FloatBound(st, "maximum", Get(setting_data.max_val))
    ELSE st

\* lines 95-102, with the if / if-elif / if structure of the code; a statement
\* is not reached once an exception propagates
BoundsStep(st, setting_data) ==
    BoundsMaxReal(
        BoundsMaxIntElifMinReal(BoundsMinInt(st, setting_data), setting_data),
        setting_data)

\* lines 104-105 without the test of the type
EnumStepAnyType(st, setting_data) ==
    IF st.exc THEN st
    ELSE IF Truthy(setting_data.enumvals)
         THEN SetField(st, "enum", Get(setting_data.enumvals))
    ELSE st

\* lines 104-105
EnumStep(st, setting_data) ==
    IF st.exc THEN st
    ELSE IF setting_data.vartype = "enum" /\ Truthy(setting_data.enumvals)
         THEN SetField(st, "enum", Get(setting_data.enumvals))
    ELSE st

\* lines 69-105: the property of one setting found in the database data
BuildProp(setting_name, setting_data) ==
    EnumStep(
        BoundsStep(DefaultStep(PropStart(setting_data), setting_name, setting_data),
                   setting_data),
        setting_data)

\* a line 63 without sorted(): the settings in the order of the list
SettingOrderAsDeclared(settings_list) == settings_list

\* line 63: the order in which a category's settings are visited
SettingOrder(settings_list) == Sorted(settings_list)

\* line 107, after the body built st: category_schema['properties'][name] = prop
AddProp(acc, setting_name, st) ==
    [exc |-> st.exc,
     warn |-> acc.warn \o st.warn,
     props |-> IF st.exc THEN acc.props ELSE DictSet(acc.props, setting_name, st.prop)]

\* lines 64-67: the setting is not in the database data
SkipMissing(acc, setting_name) ==
    [acc EXCEPT !.warn = Append(@, MissingWarning(setting_name))]

\* lines 64-107: the body of the loop over settings
SettingBody(db_settings_data, acc, setting_name) ==
    IF setting_name \notin DOMAIN db_settings_data
    THEN SkipMissing(acc, setting_name)
    ELSE AddProp(acc, setting_name, BuildProp(setting_name, db_settings_data[setting_name]))

\* lines 63-107: the loop over one category's settings; acc is
\* [exc, warn, props] where props is category_schema['properties']
RECURSIVE GenSettings(_, _, _)
GenSettings(db_settings_data, names, acc) ==
    IF acc.exc \/ Len(names) = 0 THEN acc
    ELSE GenSettings(db_settings_data, Tail(names),
                     SettingBody(db_settings_data, acc, Head(names)))

CategorySchema(category_name, props) ==
    [type |-> "object",
     description |-> <<"Settings for the ", category_name, " category.">>,
     properties |-> props]

\* line 109, after the loop over settings gave r: schema['properties'][name] = ...
AddCategory(acc, category_name, r) ==
    [exc |-> r.exc,
     warn |-> r.warn,
     cats |-> IF r.exc THEN acc.cats
              ELSE DictSet(acc.cats, category_name, CategorySchema(category_name, r.props))]

\* lines 57-109: the body of the loop over categories
CategoryBody(db_settings_data, acc, item) ==
    AddCategory(acc, item[1],
                GenSettings(db_settings_data, SettingOrder(item[2]),
                            [exc |-> FALSE, warn |-> acc.warn, props |-> <<>>]))

\* lines 56-109: the loop over categories.items(); acc is [exc, warn, cats]
\* where cats is schema['properties']
RECURSIVE GenCategories(_, _, _)
GenCategories(db_settings_data, items, acc) ==
    IF acc.exc \/ Len(items) = 0 THEN acc
    ELSE GenCategories(db_settings_data, Tail(items),
                       CategoryBody(db_settings_data, acc, Head(items)))

\* lines 42-46 and 111: the document, or none when a ValueError left the function
SchemaResult(r) ==
    [returned |-> ~r.exc,
     warnings |-> r.warn,
     schema |-> IF r.exc THEN None
                ELSE Some([type |-> "object",
                           description |-> <<"Schema for PostgreSQL configuration settings (postgresql.conf), grouped by category.">>,
                           properties |-> r.cats])]

\* generate_schema_yaml(db_settings_data, categories): returned is FALSE when a
\* ValueError left the function, and then there is no schema
generate_schema_yaml(db_settings_data, categories) ==
    SchemaResult(GenCategories(db_settings_data, categories,
                               [exc |-> FALSE, warn |-> <<>>, cats |-> <<>>]))

(***************************************************************************)
(* Inputs: rows of pg_settings and category maps.                          *)
(***************************************************************************)
Row(vartype, unit, min_val, max_val, enumvals, reset_val) ==
    [name |-> None, short_desc |-> <<"d">>, vartype |-> vartype, unit |-> unit,
     min_val |-> min_val, max_val |-> max_val,
     enumvals |-> enumvals, reset_val |-> reset_val]

StrOn == <<"o", "n">>

\* numeric rows: every combination of an absent, a well-formed and a malformed
\* bound ("1.5" is a float and no int), and absent and malformed reset values
NumericRows ==
    {Row(t, Some(<<"k", "B">>), mn, mx, None, Some(<<"5">>)) :
        t \in {"integer", "real"},
        mn \in {None, Some(<<" ", "1">>), Some(<<"x">>)},
        mx \in {None, Some(<<"9", "0">>), Some(<<"1", ".", "5">>)}}
    \cup
    {Row(t, None, b[1], b[2], None, r) :
        t \in {"integer", "real"},
        b \in {<<None, None>>, <<Some(<<"-", "1">>), Some(<<"9">>)>>, <<Some(<<>>), None>>},
        r \in {None, Some(StrOn), Some(<<"2", ".", "5", "0">>)}}

\* rows of the other types, some of them carrying bounds and enumvals the
\* store would not report for that type
OtherRows ==
    {Row("bool", None, None, None, None, r) : r \in {None, Some(StrOn), Some(<<"o", "f", "f">>)}}
    \cup
    {Row(t, Some(<<>>), Some(<<"1">>), Some(<<"9">>), ev, Some(StrOn)) :
        t \in {"bool", "string", "enum", "int8"},
        ev \in {None, Some(<<"w", "d">>)}}
    \cup
    {Row("enum", None, None, None, ev, Some(<<"w">>)) :
        ev \in {None, Some(<<>>), Some(<<"w", "d", "i">>), Some(<<"d", "w", "d">>)}}

GenRows == NumericRows \cup OtherRows

\* a well-formed integer row, an integer row with a malformed bound, an enum row
PlainRows ==
    {Row("integer", None, Some(<<"1">>), Some(<<"9">>), None, Some(<<"5">>)),
     Row("integer", None, Some(<<"1">>), Some(<<"x">>), None, Some(<<"5">>)),
     Row("enum", None, None, None, Some(<<"w", "d">>), Some(<<"w">>))}

\* parameter names "ab" and "b" as code points: "ab" < "b", though it is longer
NameAB == <<1, 2>>

NameB == <<2>>

Names == {NameAB, NameB}

CatNames == {"memory", "logging"}

\* every dict {name: row} whose rows are taken from pool[name]
Dbs(pool) ==
    UNION {[dom -> UNION {pool[n] : n \in dom}] : dom \in SUBSET Names}

\* the rows of a dict carry their own name
DbsOver(pool) ==
    {[n \in DOMAIN db |-> [db[n] EXCEPT !.name = n]] :
        db \in {d \in Dbs(pool) : \A n \in DOMAIN d : d[n] \in pool[n]}}

Lists(maxLen) == UNION {[1..n -> Names] : n \in 0..maxLen}

CatOrders ==
    {o \in UNION {[1..n -> CatNames] : n \in 0..Cardinality(CatNames)} :
        \A i, j \in 1..Len(o) : o[i] = o[j] => i = j}

\* every category map: a dict from distinct category names, in any order, to lists
CatMaps(maxLen) ==
    UNION {{[i \in 1..Len(o) |-> <<o[i], l[i]>>] : l \in [1..Len(o) -> Lists(maxLen)]} :
           o \in CatOrders}

GenDbs == DbsOver([n \in Names |-> IF n = NameAB THEN GenRows ELSE PlainRows])

MainDbs == DbsOver([n \in Names |-> PlainRows])

\* the parsed category file: yaml.safe_load gives None for an empty document,
\* a scalar, a list or a dict; has says whether 'categories' in data holds
\* (a substring of a str, an element of a list, a key of a dict)
YamlDocs(maxLen) ==
    {[k |-> "null", has |-> FALSE, v |-> <<>>], [k |-> "int", has |-> FALSE, v |-> <<>>]}
    \cup {[k |-> t, has |-> h, v |-> <<>>] : t \in {"str", "list"}, h \in BOOLEAN}
    \cup {[k |-> "dict", has |-> FALSE, v |-> <<>>]}
    \cup {[k |-> "dict", has |-> TRUE, v |-> [k |-> t, d |-> <<>>]] : t \in {"null", "list", "str"}}
    \cup {[k |-> "dict", has |-> TRUE, v |-> [k |-> "dict", d |-> c]] : c \in CatMaps(maxLen)}

YamlFiles(maxLen) ==
    {[state |-> "missing", data |-> <<>>], [state |-> "malformed", data |-> <<>>]}
    \cup {[state |-> "parsed", data |-> d] : d \in YamlDocs(maxLen)}

(***************************************************************************)
(* The state of a run of main().                                           *)
(***************************************************************************)
VARIABLES
    pc,                 \* the statement of main() about to run
    store,              \* the rows pg_settings holds (context <> 'internal')
    yamlFile,           \* the category file on disk
    outBefore,          \* the content at the output path before the run
    outFile,            \* the content at the output path: None, or its lines
    conn,               \* "none", "open", "unref" (open, no longer referenced), "closed"
    connects,           \* connections opened
    queries,            \* queries executed
    db_settings_data,
    yaml_categories,
    in_yaml_not_in_db,  \* None until line 157 assigns it
    in_db_not_in_yaml,  \* None until line 158 assigns it
    gen,                \* what generate_schema_yaml did, once called
    genCalls,           \* calls of generate_schema_yaml
    opens,              \* open(args.output_schema_file, 'w') calls
    ioFailAt,           \* "none", or where an IOError was raised: "open", "dump"
    stderr,             \* the diagnostics printed to sys.stderr
    exitStatus          \* None while running, else the process's exit status

vars ==
    <<pc, store, yamlFile, outBefore, outFile, conn, connects, queries,
      db_settings_data, yaml_categories, in_yaml_not_in_db, in_db_not_in_yaml,
      gen, genCalls, opens, ioFailAt, stderr, exitStatus>>

NotCalled == [returned |-> FALSE, warnings |-> <<>>, schema |-> None]

Locals0 ==
    /\ conn = "none"
    /\ connects = 0
    /\ queries = 0
    /\ in_yaml_not_in_db = None
    /\ in_db_not_in_yaml = None
    /\ gen = NotCalled
    /\ genCalls = 0
    /\ opens = 0
    /\ ioFailAt = "none"
    /\ stderr = <<>>
    /\ exitStatus = None

Init ==
    /\ pc = "connect"
    /\ store \in {{db[n] : n \in DOMAIN db} : db \in MainDbs}
    /\ yamlFile \in YamlFiles(MainMaxListLen)
    /\ outBefore \in {None, Some(<<"old">>)}
    /\ outFile = outBefore
    /\ db_settings_data = <<>>
    /\ yaml_categories = <<>>
    /\ Locals0

\* sys.exit(status), or an exception no handler of the program catches (its
\* traceback goes to stderr and the interpreter ends with status 1)
Exit(status, diagnostics) ==
    /\ pc' = "exiting"
    /\ exitStatus' = Some(status)
    /\ stderr' = stderr \o diagnostics

(***************************************************************************)
(* get_postgres_settings.                                                  *)
(***************************************************************************)
\* line 11, psycopg2.connect(...) succeeds
ConnectOk ==
    /\ pc = "connect"
    /\ conn' = "open"
    /\ connects' = connects + 1
    /\ pc' = "query"
    /\ UNCHANGED <<store, yamlFile, outBefore, outFile, queries, db_settings_data,
                   yaml_categories, in_yaml_not_in_db, in_db_not_in_yaml, gen,
                   genCalls, opens, ioFailAt, stderr, exitStatus>>

\* line 11 raises psycopg2.Error: no connection exists; lines 19-21
ConnectFail ==
    /\ pc = "connect"
    /\ Exit(1, <<Diag("Database connection error")>>)
    /\ UNCHANGED <<store, yamlFile, outBefore, outFile, conn, connects, queries,
                   db_settings_data, yaml_categories, in_yaml_not_in_db,
                   in_db_not_in_yaml, gen, genCalls, opens, ioFailAt>>

\* line 18: {row['name']: dict(row) for row in cur.fetchall()}
RowsToDict(rows) ==
    [n \in {r.name : r \in rows} |-> CHOOSE r \in rows : r.name = n]

\* What leaving "with psycopg2.connect(...) as conn" and then the function does
\* to the connection. psycopg2's connection, as a context manager, ends the
\* transaction (commit, or rollback on an exception) and does not close the
\* connection. The connection is closed when the object is destroyed: released
\* is TRUE when that happens as the frame is dropped (reference counting),
\* FALSE when the destruction is deferred.
AfterReturn(released) == IF released THEN "closed" ELSE "unref"

\* lines 12-18: the query runs, the rows are returned
QueryOk ==
    /\ pc = "query"
    /\ queries' = queries + 1
    /\ db_settings_data' = RowsToDict(store)
    /\ \E released \in BOOLEAN : conn' = AfterReturn(released)
    /\ pc' = "load_yaml"
    /\ UNCHANGED <<store, yamlFile, outBefore, outFile, connects, yaml_categories,
                   in_yaml_not_in_db, in_db_not_in_yaml, gen, genCalls, opens,
                   ioFailAt, stderr, exitStatus>>

\* line 13 raises psycopg2.Error: the with block rolls back and leaves the
\* connection open; the handler's traceback still refers to it; lines 19-21
QueryFail ==
    /\ pc = "query"
    /\ queries' = queries + 1
    /\ Exit(1, <<Diag("Database connection error")>>)
    /\ UNCHANGED <<store, yamlFile, outBefore, outFile, conn, connects,
                   db_settings_data, yaml_categories, in_yaml_not_in_db,
                   in_db_not_in_yaml, gen, genCalls, opens, ioFailAt>>

\* the destructor of the connection object, once nothing refers to it
ConnDealloc ==
    /\ conn = "unref"
    /\ pc # "exited"
    /\ conn' = "closed"
    /\ UNCHANGED <<pc, store, yamlFile, outBefore, outFile, connects, queries,
                   db_settings_data, yaml_categories, in_yaml_not_in_db,
                   in_db_not_in_yaml, gen, genCalls, opens, ioFailAt, stderr,
                   exitStatus>>

(***************************************************************************)
(* get_yaml_categories.                                                    *)
(***************************************************************************)
\* The outcome of lines 27-32 on a parsed document: "return", "missing_key"
\* (lines 31-32), or "TypeError", which no except clause of the function names.
\*   'categories' in data    raises TypeError for None and for a number;
\*   data['categories']      raises TypeError for a str and for a list.
CategoriesOutcome(data) ==
    IF data.k \in {"null", "int"} THEN "TypeError"
    ELSE IF ~data.has THEN "missing_key"
    ELSE IF data.k \in {"str", "list"} THEN "TypeError"
    ELSE IF data.v.k = "dict" THEN "return"
    ELSE "missing_key"

\* lines 33-35
YamlNotFound ==
    /\ pc = "load_yaml"
    /\ yamlFile.state = "missing"
    /\ Exit(1, <<Diag("YAML file not found")>>)
    /\ UNCHANGED <<store, yamlFile, outBefore, outFile, conn, connects, queries,
                   db_settings_data, yaml_categories, in_yaml_not_in_db,
                   in_db_not_in_yaml, gen, genCalls, opens, ioFailAt>>

\* lines 36-38
YamlParseError ==
    /\ pc = "load_yaml"
    /\ yamlFile.state = "malformed"
    /\ Exit(1, <<Diag("Error parsing YAML file")>>)
    /\ UNCHANGED <<store, yamlFile, outBefore, outFile, conn, connects, queries,
                   db_settings_data, yaml_categories, in_yaml_not_in_db,
                   in_db_not_in_yaml, gen, genCalls, opens, ioFailAt>>

\* lines 28-29
YamlReturn ==
    /\ pc = "load_yaml"
    /\ yamlFile.state = "parsed"
    /\ CategoriesOutcome(yamlFile.data) = "return"
    /\ yaml_categories' = yamlFile.data.v.d
    /\ pc' = "compare"
    /\ UNCHANGED <<store, yamlFile, outBefore, outFile, conn, connects, queries,
                   db_settings_data, in_yaml_not_in_db, in_db_not_in_yaml, gen,
                   genCalls, opens, ioFailAt, stderr, exitStatus>>

\* lines 30-32
YamlMissingKey ==
    /\ pc = "load_yaml"
    /\ yamlFile.state = "parsed"
    /\ CategoriesOutcome(yamlFile.data) = "missing_key"
    /\ Exit(1, <<Diag("'categories' key not found or not a dictionary")>>)
    /\ UNCHANGED <<store, yamlFile, outBefore, outFile, conn, connects, queries,
                   db_settings_data, yaml_categories, in_yaml_not_in_db,
                   in_db_not_in_yaml, gen, genCalls, opens, ioFailAt>>

\* line 28 raises TypeError: it leaves get_yaml_categories and main() uncaught
YamlTypeError ==
    /\ pc = "load_yaml"
    /\ yamlFile.state = "parsed"
    /\ CategoriesOutcome(yamlFile.data) = "TypeError"
    /\ Exit(1, <<Diag("Traceback: TypeError")>>)
    /\ UNCHANGED <<store, yamlFile, outBefore, outFile, conn, connects, queries,
                   db_settings_data, yaml_categories, in_yaml_not_in_db,
                   in_db_not_in_yaml, gen, genCalls, opens, ioFailAt>>

(***************************************************************************)
(* main(): reconciliation, generation, write.                              *)
(***************************************************************************)
\* a line 153 that reads the first category's list only
YamlSettingsFirstOnly(categories) ==
    IF Len(categories) = 0 THEN {}
    ELSE {categories[1][2][j] : j \in 1..Len(categories[1][2])}

\* line 153: {setting for sublist in yaml_categories.values() for setting in sublist}
YamlSettings(categories) ==
    UNION {{categories[i][2][j] : j \in 1..Len(categories[i][2])} :
           i \in 1..Len(categories)}

\* line 148: set(db_settings_data.keys())
DbSettings(data) == DOMAIN data

\* sorted(list(a_set))
RECURSIVE SortedOfSet(_)
SortedOfSet(S) ==
    IF S = {} THEN <<>>
    ELSE LET x == CHOOSE y \in S : \A z \in S \ {y} : StrLess(y, z)
         IN  <<x>> \o SortedOfSet(S \ {x})

\* line 162: not in_yaml_not_in_db and not in_db_not_in_yaml
InSync(yaml_not_db, db_not_yaml) == Len(yaml_not_db) = 0 /\ Len(db_not_yaml) = 0

\* lines 153-162
Compare ==
    /\ pc = "compare"
    /\ in_yaml_not_in_db' =
           Some(SortedOfSet(YamlSettings(yaml_categories) \ DbSettings(db_settings_data)))
    /\ in_db_not_in_yaml' =
           Some(SortedOfSet(DbSettings(db_settings_data) \ YamlSettings(yaml_categories)))
    /\ pc' = IF InSync(Get(in_yaml_not_in_db'), Get(in_db_not_in_yaml'))
             THEN "generate" ELSE "report"
    /\ UNCHANGED <<store, yamlFile, outBefore, outFile, conn, connects, queries,
                   db_settings_data, yaml_categories, gen, genCalls, opens,
                   ioFailAt, stderr, exitStatus>>

\* lines 175-186
Report ==
    /\ pc = "report"
    /\ Exit(1, <<>>)
    /\ UNCHANGED <<store, yamlFile, outBefore, outFile, conn, connects, queries,
                   db_settings_data, yaml_categories, in_yaml_not_in_db,
                   in_db_not_in_yaml, gen, genCalls, opens, ioFailAt>>

\* line 166; a ValueError raised inside leaves main() uncaught
Generate ==
    /\ pc = "generate"
    /\ gen' = generate_schema_yaml(db_settings_data, yaml_categories)
    /\ genCalls' = genCalls + 1
    /\ IF gen'.returned
       THEN /\ pc' = "open_out"
            /\ stderr' = stderr \o gen'.warnings
            /\ UNCHANGED exitStatus
       ELSE Exit(1, gen'.warnings \o <<Diag("Traceback: ValueError")>>)
    /\ UNCHANGED <<store, yamlFile, outBefore, outFile, conn, connects, queries,
                   db_settings_data, yaml_categories, in_yaml_not_in_db,
                   in_db_not_in_yaml, opens, ioFailAt>>

\* The lines yaml.dump(..., sort_keys=False) writes for one category: its key,
\* then its properties in the order of the dict.
CategoryLines(item) ==
    <<<<"category", item[1]>>>>
    \o [j \in 1..Len(item[2].properties) |->
            <<"property", item[1], item[2].properties[j][1], item[2].properties[j][2]>>]

RECURSIVE CategoriesLines(_)
CategoriesLines(items) ==
    IF Len(items) = 0 THEN <<>>
    ELSE CategoryLines(Head(items)) \o CategoriesLines(Tail(items))

Serialize(schema) ==
    <<<<"type", schema.type>>, <<"description", schema.description>>, <<"properties">>>>
    \o CategoriesLines(schema.properties)

\* an open that empties the file before it fails
AfterOpenTruncating(before, ok) == Some(<<>>)

\* What open(path, 'w') leaves at the path: an empty file when it succeeds,
\* what was there when it raises
AfterOpen(before, ok) == IF ok THEN Some(<<>>) ELSE before

\* line 168 succeeds
OpenOk ==
    /\ pc = "open_out"
    /\ opens' = opens + 1
    /\ outFile' = AfterOpen(outFile, TRUE)
    /\ pc' = "dump"
    /\ UNCHANGED <<store, yamlFile, outBefore, conn, connects, queries,
                   db_settings_data, yaml_categories, in_yaml_not_in_db,
                   in_db_not_in_yaml, gen, genCalls, ioFailAt, stderr, exitStatus>>

\* line 168 raises IOError; lines 171-173
OpenFail ==
    /\ pc = "open_out"
    /\ opens' = opens + 1
    /\ outFile' = AfterOpen(outFile, FALSE)
    /\ ioFailAt' = "open"
    /\ Exit(1, <<Diag("Error writing to")>>)
    /\ UNCHANGED <<store, yamlFile, outBefore, conn, connects, queries,
                   db_settings_data, yaml_categories, in_yaml_not_in_db,
                   in_db_not_in_yaml, gen, genCalls>>

\* line 169: yaml.dump writes the next line of the document
DumpLine ==
    /\ pc = "dump"
    /\ Len(Get(outFile)) < Len(Serialize(Get(gen.schema)))
    /\ outFile' = Some(Append(Get(outFile), Serialize(Get(gen.schema))[Len(Get(outFile)) + 1]))
    /\ UNCHANGED <<pc, store, yamlFile, outBefore, conn, connects, queries,
                   db_settings_data, yaml_categories, in_yaml_not_in_db,
                   in_db_not_in_yaml, gen, genCalls, opens, ioFailAt, stderr,
                   exitStatus>>

\* line 169, or the close of line 168's with, raises IOError; lines 171-173.
\* What was written stays in the file.
DumpFail ==
    /\ pc = "dump"
    /\ ioFailAt' = "dump"
    /\ Exit(1, <<Diag("Error writing to")>>)
    /\ UNCHANGED <<store, yamlFile, outBefore, outFile, conn, connects, queries,
                   db_settings_data, yaml_categories, in_yaml_not_in_db,
                   in_db_not_in_yaml, gen, genCalls, opens>>

\* lines 169-170: the document is written and the file closed; main() returns
DumpDone ==
    /\ pc = "dump"
    /\ Len(Get(outFile)) = Len(Serialize(Get(gen.schema)))
    /\ Exit(0, <<>>)
    /\ UNCHANGED <<store, yamlFile, outBefore, outFile, conn, connects, queries,
                   db_settings_data, yaml_categories, in_yaml_not_in_db,
                   in_db_not_in_yaml, gen, genCalls, opens, ioFailAt>>

\* the interpreter ends: the process's sockets are closed with it
Terminate ==
    /\ pc = "exiting"
    /\ pc' = "exited"
    /\ conn' = IF conn \in {"open", "unref"} THEN "closed" ELSE conn
    /\ UNCHANGED <<store, yamlFile, outBefore, outFile, connects, queries,
                   db_settings_data, yaml_categories, in_yaml_not_in_db,
                   in_db_not_in_yaml, gen, genCalls, opens, ioFailAt, stderr,
                   exitStatus>>

Next ==
    \/ ConnectOk \/ ConnectFail \/ QueryFail \/ QueryOk \/ ConnDealloc
    \/ YamlNotFound \/ YamlParseError \/ YamlReturn \/ YamlMissingKey \/ YamlTypeError
    \/ Compare \/ Report \/ Generate
    \/ OpenOk \/ OpenFail \/ DumpLine \/ DumpFail \/ DumpDone
    \/ Terminate

Spec == Init /\ [][Next]_vars

(***************************************************************************)
(* generate_schema_yaml called on its own, on any database data and any    *)
(* category map, consistent with each other or not.                        *)
(***************************************************************************)
InitGen ==
    /\ pc = "generate"
    /\ store = {}
    /\ yamlFile = [state |-> "missing", data |-> <<>>]
    /\ outBefore = None
    /\ outFile = None
    /\ db_settings_data \in GenDbs
    /\ yaml_categories \in CatMaps(GenMaxListLen)
    /\ Locals0

NextGen == Generate

SpecGen == InitGen /\ [][NextGen]_vars

(***************************************************************************)
(* Properties of a run of main(), checked under Spec.                      *)
(***************************************************************************)
Printed(kind) == \E i \in 1..Len(stderr) : stderr[i].kind = kind

Finished == pc = "exited"

\* lines 147-158 ran: both the parameter records and the category map exist
Compared == ~IsNone(in_yaml_not_in_db)

StoreNames == {r.name : r \in store}

ListNames(l) == {l[j] : j \in 1..Len(l)}

DeclaredNames == UNION {ListNames(yamlFile.data.v.d[i][2]) : i \in 1..Len(yamlFile.data.v.d)}

\* the union of the names in the category map's lists is the key set of the records
Reconciled == DeclaredNames = StoreNames

\* the whole document is at the output path
Written ==
    /\ gen.returned
    /\ outFile = Some(Serialize(Get(gen.schema)))

\* the write of lines 168-169 was reached
WriteReached == opens = 1

\* C1: a run that loaded the records and the category map invokes schema
\* generation and goes on to write the output file if and only if the two name
\* sets are equal; otherwise generation is not invoked, the output file is not
\* opened or written, and the exit status is 1. (Whether the write, once
\* reached, succeeds is the subject of C9.)
C1_AsStated ==
    (Finished /\ Compared) =>
        /\ (genCalls = 1 /\ WriteReached) <=> Reconciled
        /\ ~Reconciled =>
               /\ genCalls = 0
               /\ opens = 0
               /\ outFile = outBefore
               /\ exitStatus = Some(1)

\* the lines of the document at the output path
FileLines == IF IsNone(outFile) THEN <<>> ELSE Get(outFile)

FileCategories == {FileLines[i][2] : i \in {j \in 1..Len(FileLines) : FileLines[j][1] = "category"}}

FileProps(category) ==
    {FileLines[i][3] : i \in {j \in 1..Len(FileLines) :
                                 FileLines[j][1] = "property" /\ FileLines[j][2] = category}}

Emitted == pc \in {"exiting", "exited"} /\ exitStatus = Some(0)

\* C2: when a schema document has been emitted, the property names of all its
\* category sub-schemas together are exactly the names of the store's parameter
\* records, its categories are the declared categories, and each category's
\* property names are exactly the names declared in that category's list.
C2_EmittedSchemaIsReconciled ==
    Emitted =>
        /\ Written
        /\ UNION {FileProps(c) : c \in FileCategories} = StoreNames
        /\ FileCategories = Keys(yamlFile.data.v.d)
        /\ \A i \in 1..Len(yamlFile.data.v.d) :
               FileProps(yamlFile.data.v.d[i][1]) = ListNames(yamlFile.data.v.d[i][2])

\* a schema emitted for two categories that declare one parameter each
C2_Witness ==
    /\ Emitted
    /\ Len(yaml_categories) = 2
    /\ Cardinality(StoreNames) = 2
    /\ \A i \in 1..2 : Len(yaml_categories[i][2]) = 1

\* get_yaml_categories ran on a parsed document and is over
LoadedParsed ==
    /\ yamlFile.state = "parsed"
    /\ pc \notin {"connect", "query", "load_yaml"}
    /\ ~Printed("Database connection error")

CategoriesIsMapping ==
    /\ yamlFile.data.k = "dict"
    /\ yamlFile.data.has
    /\ yamlFile.data.v.k = "dict"

\* C3, as stated: on every successfully parsed document, get_yaml_categories
\* returns the categories mapping when the key is there and is a mapping, and
\* otherwise prints the missing-key diagnostic and ends the process with a
\* non-zero status; there is no other outcome.
C3_AsStated ==
    LoadedParsed =>
        IF CategoriesIsMapping
        THEN /\ ~Printed("'categories' key not found or not a dictionary")
             /\ Compared \/ pc = "compare"
             /\ yaml_categories = yamlFile.data.v.d
        ELSE /\ Printed("'categories' key not found or not a dictionary")
             /\ ~Printed("Traceback: TypeError")
             /\ exitStatus = Some(1)

HeldConn == conn \in {"open", "unref"}

\* C8, as stated: one connection is opened, one query is run on it, and the
\* connection is released before get_postgres_settings hands control on, also
\* when the query fails: no later stage runs while it is held.
C8_AsStated ==
    /\ connects <= 1
    /\ queries <= connects
    /\ pc \in {"load_yaml", "compare", "generate", "report", "open_out", "dump",
               "exiting"} => ~HeldConn

\* C9, as stated: when the write fails with an IOError, the diagnostic is
\* printed, the exit status is 1 and the content at the output path is what it
\* was before the run, whether the open or the serialization failed.
C9_AsStated ==
    ioFailAt # "none" =>
        /\ Printed("Error writing to")
        /\ exitStatus = Some(1)
        /\ outFile = outBefore

IsPrefix(s, t) == Len(s) <= Len(t) /\ s = SubSeq(t, 1, Len(s))

\* C9, amended: when the write fails with an IOError, the diagnostic is printed
\* and the exit status is 1; the content at the output path is what it was
\* before the run when the open failed; when the serialization failed after the
\* open, the previous content is gone and the path holds the part of the new
\* document written so far, possibly none of it.
C9_WriteFailure ==
    ioFailAt # "none" =>
        /\ Printed("Error writing to")
        /\ exitStatus = Some(1)
        /\ ioFailAt = "open" => outFile = outBefore
        /\ ioFailAt = "dump" =>
               /\ ~IsNone(outFile)
               /\ IsPrefix(Get(outFile), Serialize(Get(gen.schema)))

\* the serialization failed midway over a file that existed before the run
C9_Witness ==
    /\ ioFailAt = "dump"
    /\ outBefore = Some(<<"old">>)
    /\ Len(Get(outFile)) > 0
    /\ Len(Get(outFile)) < Len(Serialize(Get(gen.schema)))

(***************************************************************************)
(* Properties of generate_schema_yaml, checked under SpecGen.              *)
(***************************************************************************)
Called == genCalls = 1

\* schema['properties'] of the returned document
DocCats == Get(gen.schema).properties

\* the properties of the i-th category of the returned document
DocProps(i) == DocCats[i][2].properties

\* the settings of the i-th declared category that the database data holds
FoundNames(i) == ListNames(yaml_categories[i][2]) \cap DOMAIN db_settings_data

IsNumeric(row) == row.vartype \in {"integer", "real"}

Parses(vartype, str) == IF vartype = "integer" THEN IntParses(str) ELSE FloatParses(str)

NumberOf(vartype, str) == IF vartype = "integer" THEN IntOf(str) ELSE FloatOf(str)

Malformed(row, o) == IsNumeric(row) /\ ~IsNone(o) /\ ~Parses(row.vartype, Get(o))

\* C4: a malformed minValue or maxValue of an integer or real record does not
\* abort generation: the document is returned, the record's property is in it,
\* and the field of the malformed bound is left out.
C4_AsStated ==
    Called =>
        /\ gen.returned
        /\ \A i \in 1..Len(yaml_categories) : \A n \in FoundNames(i) :
               /\ n \in Keys(DocProps(i))
               /\ Malformed(db_settings_data[n], db_settings_data[n].min_val)
                      => "minimum" \notin DOMAIN Lookup(DocProps(i), n)
               /\ Malformed(db_settings_data[n], db_settings_data[n].max_val)
                      => "maximum" \notin DOMAIN Lookup(DocProps(i), n)

\* the database data with the reset value of setting n made well-formed
WithGoodReset(n) ==
    [db_settings_data EXCEPT ![n] = [@ EXCEPT !.reset_val = Some(<<"5">>)]]

\* the properties of category i in result r other than setting n's
Others(r, i, n) ==
    LET props == Get(r.schema).properties[i][2].properties
    IN  {props[j] : j \in {k \in 1..Len(props) : props[k][1] # n}}

\* C5: for an integer or real record whose reset value is present and
\* malformed, the property is emitted with its type and description and
\* without a default, a warning naming the setting is printed, and every other
\* property is what it would be were that reset value well-formed.
C5_AsStated ==
    Called =>
        \A i \in 1..Len(yaml_categories) : \A n \in FoundNames(i) :
            Malformed(db_settings_data[n], db_settings_data[n].reset_val) =>
                /\ gen.returned
                /\ n \in Keys(DocProps(i))
                /\ "default" \notin DOMAIN Lookup(DocProps(i), n)
                /\ Lookup(DocProps(i), n).type = TypeMapping(db_settings_data[n].vartype)
                /\ Lookup(DocProps(i), n).description = Description(db_settings_data[n])
                /\ \E w \in 1..Len(gen.warnings) : gen.warnings[w] = ResetWarning(n)
                /\ \A c \in 1..Len(yaml_categories) :
                       Others(gen, c, n)
                           = Others(generate_schema_yaml(WithGoodReset(n), yaml_categories), c, n)

\* C6: in a returned document, a property of an integer or real record has
\* minimum exactly when min_val is not None and maximum exactly when max_val is
\* not None, each the value parsed as the record's numeric type; a property of
\* a record of any other type has neither.
C6_BoundsOnlyForNumericTypes ==
    (Called /\ gen.returned) =>
        \A i \in 1..Len(DocCats) : \A j \in 1..Len(DocProps(i)) :
            LET row == db_settings_data[DocProps(i)[j][1]]
                prop == DocProps(i)[j][2]
            IN  IF IsNumeric(row)
                THEN /\ "minimum" \in DOMAIN prop <=> ~IsNone(row.min_val)
                     /\ "maximum" \in DOMAIN prop <=> ~IsNone(row.max_val)
                     /\ "minimum" \in DOMAIN prop =>
                            /\ prop.minimum = NumberOf(row.vartype, Get(row.min_val))
                            /\ prop.minimum.t = (IF row.vartype = "integer" THEN "int" ELSE "float")
                     /\ "maximum" \in DOMAIN prop =>
                            /\ prop.maximum = NumberOf(row.vartype, Get(row.max_val))
                            /\ prop.maximum.t = (IF row.vartype = "integer" THEN "int" ELSE "float")
                ELSE /\ "minimum" \notin DOMAIN prop
                     /\ "maximum" \notin DOMAIN prop

\* a returned document with an integer property that has a minimum and no
\* maximum beside one that has both
C6_Witness ==
    /\ Called /\ gen.returned
    /\ \E i \in 1..Len(DocCats) : \E j, k \in 1..Len(DocProps(i)) :
           /\ db_settings_data[DocProps(i)[j][1]].vartype = "integer"
           /\ DOMAIN DocProps(i)[j][2] \cap {"minimum", "maximum"} = {"minimum"}
           /\ DOMAIN DocProps(i)[k][2] \cap {"minimum", "maximum"} = {"minimum", "maximum"}

\* C7: the returned document lists the categories in the declared order of the
\* category map and, in every category, the found settings of its list, each
\* once, in ascending lexicographic order, whatever the order and the
\* repetitions of the list.
C7_CategoriesDeclaredPropertiesSorted ==
    (Called /\ gen.returned) =>
        /\ KeySeq(DocCats) = KeySeq(yaml_categories)
        /\ \A i \in 1..Len(DocCats) :
               /\ Keys(DocProps(i)) = FoundNames(i)
               /\ \A j, k \in 1..Len(DocProps(i)) :
                      j < k => StrLess(DocProps(i)[j][1], DocProps(i)[k][1])

\* two categories, the second one's list naming "b" before "ab"
C7_Witness ==
    /\ Called /\ gen.returned
    /\ Len(DocCats) = 2
    /\ yaml_categories[2][2] = <<NameB, NameAB>>
    /\ Len(DocProps(2)) = 2

\* C10: in a returned document a property has enum exactly when its record is
\* of type enum with non-empty enumvals, and then enum is enumvals itself,
\* element for element.
C10_EnumCopiedVerbatim ==
    (Called /\ gen.returned) =>
        \A i \in 1..Len(DocCats) : \A j \in 1..Len(DocProps(i)) :
            LET row == db_settings_data[DocProps(i)[j][1]]
                prop == DocProps(i)[j][2]
            IN  /\ "enum" \in DOMAIN prop <=> (row.vartype = "enum" /\ Truthy(row.enumvals))
                /\ "enum" \in DOMAIN prop => prop.enum = Get(row.enumvals)

\* an enum property whose values are neither sorted nor distinct
C10_Witness ==
    /\ Called /\ gen.returned
    /\ \E i \in 1..Len(DocCats) : \E j \in 1..Len(DocProps(i)) :
           /\ "enum" \in DOMAIN DocProps(i)[j][2]
           /\ DocProps(i)[j][2].enum = <<"d", "w", "d">>

====
